---------------------------- MODULE Spec2Model ----------------------------
(***************************************************************************)
(* Ultimate Texas Hold'em advisor: the Monte Carlo equity simulator        *)
(* (src/src/utils/monteCarlo.ts, src/unnamed/part_004) and the App         *)
(* component that starts simulations and publishes their results           *)
(* (src/src/App.tsx).                                                      *)
(*                                                                         *)
(* A card token is the sequence of its characters: "10h" is                *)
(* <<"1","0","h">>, "Ah" is <<"A","h">>.  An array is a sequence; the      *)
(* source's 0-based index k is position k + 1.                             *)
(***************************************************************************)
EXTENDS Integers, Sequences, FiniteSets, TLC

VARIABLES
    \* ---- one call of monteCarloSimulation ----
    impl,            \* which definition of monteCarloSimulation runs
    knownCards,      \* argument knownCards
    iterations,      \* argument iterations
    pc,              \* "call", "loop", "returned", "thrown"
    remainingCards,  \* remainingCards / remainingDeck
    batch,           \* batch index of the batched loops
    i,               \* loop index i
    wins, ties, losses, processed,      \* counters of the running loop
    totalWins, totalTies, totalLosses, totalProcessed,  \* batched totals
    dealt,           \* the part of the last iteration's shuffled deck that
                     \* the iteration reads: shuffled.slice(0, 2 + communityNeeded)
    attempted,       \* history: iterations entered so far
    classified,      \* history: iterations that ended in win, tie or lose
    error,           \* message of the Error thrown by the call
    result,          \* value the call resolved with
    \* ---- App and CardPicker ----
    selected,        \* CardPicker's own state
    selectedCards, fastMode, simulationResult, advice, isSimulating,
    simulationError,
    currentSimulationRef,
    effectPending,   \* the [selectedCards, fastMode] effect is scheduled
    sims,            \* the runSimulation closures in flight
    superseded,      \* history: thisSimulation of the last completion that
                     \* found currentSimulationRef changed, 0 if none
    \* ---- two calls of monteCarloSimulation in one event loop ----
    calls,           \* per call: arguments, position, history, result
    frames,          \* the variables the code of the calls reads and writes
    \* ---- one call of a function that keeps no state ----
    callee,          \* name of the function
    args,            \* its arguments
    outcome,         \* <<"pending">>, <<"returned", value>>, <<"thrown", message>>
    \* ---- OpenAIAdvisor ----
    aiAdvice,        \* << >> for null, or <<advice>>
    isLoading, usingFallback,
    lastRequestCards,
    currentRequestRef,
    timer,           \* << >>, or the closure of the pending setTimeout
    requests,        \* the getAdvice calls awaiting fetch
    advisorSeen      \* the dependencies of the effect at its last run

simVars == <<knownCards, iterations, pc, remainingCards, batch, i,
             wins, ties, losses, processed,
             totalWins, totalTies, totalLosses, totalProcessed,
             dealt, attempted, classified,
             error, result>>

appVars == <<selected, selectedCards, fastMode, simulationResult, advice,
             isSimulating, simulationError, currentSimulationRef,
             effectPending, sims, superseded>>

callVars == <<callee, args, outcome>>

pairVars == <<calls, frames>>

advisorVars == <<aiAdvice, isLoading, usingFallback, lastRequestCards,
                 currentRequestRef, timer, requests, advisorSeen>>

vars == <<impl, simVars, appVars, callVars, pairVars, advisorVars>>

(***************************************************************************)
(* Bounds of the model.                                                    *)
(***************************************************************************)
\* Math.random() takes the values s / RandomLevels, s in 0 .. RandomLevels-1.
RandomLevels == 2
\* The user acts while currentSimulationRef is under MaxToken.
MaxToken == 7
\* The user clicks on the first MaxPick cards of the picker.
MaxPick == 6
\* shuffleArray is called on arrays of up to MaxShuffle elements.
MaxShuffle == 5

(***************************************************************************)
(* Arrays.                                                                 *)
(***************************************************************************)
\* Array.prototype.includes
includes(array, x) == \E k \in 1..Len(array) : array[k] = x

\* Array.prototype.slice(from, to), 0-based, to exclusive, clamped
slice(array, from, to) ==
    LET hi == IF to > Len(array) THEN Len(array) ELSE to
    IN  IF from >= hi THEN << >>
        ELSE [k \in 1..(hi - from) |-> array[from + k]]

\* Array.prototype.filter(x => !excluded.includes(x))
\* A filter that leaves the known cards in the deck.
filterNotIn_keepsKnown(array, excluded) == array

RECURSIVE filterNotIn(_, _)
filterNotIn(array, excluded) ==
    IF array = << >> THEN << >>
    ELSE LET rest == filterNotIn(Tail(array), excluded)
         IN  IF includes(excluded, Head(array)) THEN rest
             ELSE <<Head(array)>> \o rest

\* new Set(array).size
SetSize(array) == Cardinality({array[k] : k \in 1..Len(array)})

\* the elements of an array
Elems(array) == {array[k] : k \in 1..Len(array)}

NoDuplicates(array) ==
    \A a, b \in 1..Len(array) : a # b => array[a] # array[b]

(***************************************************************************)
(* Cards and the deck.                                                     *)
(***************************************************************************)
allRanks == << <<"2">>, <<"3">>, <<"4">>, <<"5">>, <<"6">>, <<"7">>, <<"8">>,
               <<"9">>, <<"1","0">>, <<"J">>, <<"Q">>, <<"K">>, <<"A">> >>
allSuits == <<"h", "d", "s", "c">>

\* allRanks.flatMap(r => allSuits.map(s => `${r}${s}`))
generateDeck ==
    [k \in 1..(Len(allRanks) * Len(allSuits)) |->
        allRanks[((k - 1) \div Len(allSuits)) + 1]
            \o <<allSuits[((k - 1) % Len(allSuits)) + 1]>>]

\* /^(2|3|4|5|6|7|8|9|10|J|Q|K|A)[hdsc]$/.test(card)
validCardRegex(card) ==
    /\ Len(card) >= 2
    /\ includes(allRanks, SubSeq(card, 1, Len(card) - 1))
    /\ includes(allSuits, card[Len(card)])

\* card.replace('10', 'T'): the first occurrence of "10" becomes "T"
convertCardForSolver(card) ==
    LET hits == {k \in 1..(Len(card) - 1) : card[k] = "1" /\ card[k + 1] = "0"}
    IN  IF hits = {} THEN card
        ELSE LET k == CHOOSE h \in hits : \A g \in hits : h <= g
             IN  SubSeq(card, 1, k - 1) \o <<"T">> \o SubSeq(card, k + 2, Len(card))


(***************************************************************************)
(* shuffleArray.  js[i] is the value of                                    *)
(* Math.floor(Math.random() * (i + 1)) drawn at loop index i.              *)
(***************************************************************************)
\* An assignment of shuffled[j] to shuffled[i] that is no exchange.
Swap_overwrite(shuffled, a, b) ==
    [shuffled EXCEPT ![a + 1] = shuffled[b + 1]]

\* [shuffled[i], shuffled[j]] = [shuffled[j], shuffled[i]], 0-based i, j
Swap(shuffled, a, b) ==
    [shuffled EXCEPT ![a + 1] = shuffled[b + 1], ![b + 1] = shuffled[a + 1]]

RECURSIVE shuffleFrom(_, _, _)
shuffleFrom(shuffled, k, js) ==
    IF k > 0 THEN shuffleFrom(Swap(shuffled, k, js[k]), k - 1, js)
    ELSE shuffled

shuffleArray(array, js) == shuffleFrom(array, Len(array) - 1, js)

\* Math.floor(Math.random() * (k + 1)) with Math.random() = s / RandomLevels
RandomDraws(s, n) == [k \in 1..(n - 1) |-> (s * (k + 1)) \div RandomLevels]

(***************************************************************************)
(* Hand.solve and Hand.winners (pokersolver) are outside the repository:   *)
(* an iteration either throws in them or gets the winners array.           *)
(***************************************************************************)
WinnersArrays == { <<"playerResult", "dealerResult">>,
                   <<"playerResult">>,
                   <<"dealerResult">> }

\* A classification that looks at the first winner only.
Classify_firstWinner(winners) ==
    IF Len(winners) >= 1 /\ winners[1] = "playerResult" THEN "win"
    ELSE "lose"

\* if (winners.length === 2) tie, else if (winners[0] === playerResult) win,
\* else lose
Classify(winners) ==
    IF Len(winners) = 2 THEN "tie"
    ELSE IF Len(winners) >= 1 /\ winners[1] = "playerResult" THEN "win"
    ELSE "lose"

(***************************************************************************)
(* The three definitions of monteCarloSimulation.                          *)
(*   "simple"    src/src/utils/monteCarlo.ts:54                            *)
(*   "batched"   src/src/utils/monteCarlo.ts:324                           *)
(*   "validated" src/unnamed/part_004:92                                   *)
(***************************************************************************)
Impls == {"simple", "batched", "validated"}

batchSizeBatched == 25
batchSizeValidated == 50
MinIterations == 10
MaxIterations == 10000

\* Math.ceil(a / b) for b > 0
Ceil(a, b) == -((-a) \div b)

Min(a, b) == IF a < b THEN a ELSE b
Max(a, b) == IF a > b THEN a ELSE b

\* knownCards.slice(0, 2), knownCards.slice(2)
playerHole == slice(knownCards, 0, 2)
communityCards == slice(knownCards, 2, Len(knownCards))

\* A count of the missing community cards that forgets the two hole cards.
communityNeeded_fromAllKnown == Max(0, 5 - Len(knownCards))

\* Math.max(0, 5 - communityCards.length) ("simple", "validated");
\* 5 - existingCommunity.length ("batched")
communityNeeded ==
    IF impl = "batched" THEN 5 - Len(communityCards)
    ELSE Max(0, 5 - Len(communityCards))

\* shuffled.slice(0, 2)
dealerHole == slice(dealt, 0, 2)

\* [...communityCards, ...shuffled.slice(2, 2 + communityNeeded)]
fullCommunity == communityCards \o slice(dealt, 2, 2 + communityNeeded)

\* [...playerHole, ...fullCommunity] and [...dealerHole, ...fullCommunity]
playerHand == playerHole \o fullCommunity
dealerHand == dealerHole \o fullCommunity

\* playerHand.map(convertCardForSolver), dealerHand.map(convertCardForSolver)
playerSolver == [k \in 1..Len(playerHand) |-> convertCardForSolver(playerHand[k])]
dealerSolver == [k \in 1..Len(dealerHand) |-> convertCardForSolver(dealerHand[k])]

\* A length check that lets an eighth card through.
ValidationSimple_max8(known) ==
    IF Len(known) < 2 THEN "Need at least 2 cards"
    ELSE IF Len(known) > 8 THEN "Too many cards (max 7)"
    ELSE IF Len(filterNotIn(generateDeck, known)) < 7
         THEN "Not enough remaining cards"
    ELSE ""

\* The message of the Error a call throws before its loop, "" when it throws
\* none.  "Invalid card format" stands for the message that ends with the
\* card.
ValidationSimple(known) ==
    IF Len(known) < 2 THEN "Need at least 2 cards"
    ELSE IF Len(known) > 7 THEN "Too many cards (max 7)"
    ELSE IF Len(filterNotIn(generateDeck, known)) < 7
         THEN "Not enough remaining cards"
    ELSE ""

ValidationBatched(known) ==
    IF Len(known) < 2 THEN "Need at least 2 cards (hole cards) for simulation"
    ELSE IF Len(known) > 7
         THEN "Too many cards selected (max 7: 2 hole + 5 community)"
    ELSE IF \E k \in 1..Len(known) : ~validCardRegex(known[k])
         THEN "Invalid card format"
    ELSE IF SetSize(known) # Len(known) THEN "Duplicate cards detected"
    ELSE IF Len(filterNotIn(generateDeck, known)) < 7
         THEN "Not enough cards remaining in deck"
    ELSE ""

validateCards(known) ==
    IF Len(known) < 2 THEN "Need at least 2 cards for simulation"
    ELSE IF Len(known) > 7
         THEN "Too many cards (maximum 7: 2 hole + 5 community)"
    ELSE IF SetSize(known) # Len(known) THEN "Duplicate cards detected"
    ELSE IF \E k \in 1..Len(known) : ~validCardRegex(known[k])
         THEN "Invalid card format"
    ELSE ""

ValidationValidated(known, n) ==
    IF validateCards(known) # "" THEN validateCards(known)
    ELSE IF n < MinIterations \/ n > MaxIterations
         THEN "Iterations must be between 10 and 10,000"
    ELSE IF Len(filterNotIn(generateDeck, known)) < 7
         THEN "Not enough remaining cards for simulation"
    ELSE ""

Validation(im, known, n) ==
    IF im = "simple" THEN ValidationSimple(known)
    ELSE IF im = "batched" THEN ValidationBatched(known)
    ELSE ValidationValidated(known, n)


(***************************************************************************)
(* Inputs of a call.                                                       *)
(***************************************************************************)
\* Known cards are taken from this list of distinct deck cards.
MaxKnown == 8
SampleCards(n) == [k \in 1..n |-> generateDeck[((k * 11) % Len(generateDeck)) + 1]]

\* A card twice; "Th", not a token of the deck.
FaultyInputs ==
    {<<SampleCards(1)[1], SampleCards(1)[1]>>,
     << <<"T", "h">> >> \o SampleCards(1)}

KnownInputs ==
    {SampleCards(n) : n \in 0..MaxKnown}
    \cup FaultyInputs
    \cup {SampleCards(4) \o <<SampleCards(4)[3]>>,
          SampleCards(5) \o << <<"A", "x">> >>}

\* Known cards of a pre-flop, a flop and a river call.
StageInputs == {SampleCards(2), SampleCards(5), SampleCards(7)}

\* Every known-card input with a few iterations; every known-card input at
\* the bounds of the iteration check of "validated"; the three stages and the
\* faulty inputs with the least accepted count in the definitions that do not
\* check it; one call that crosses a batch boundary of "batched".
Calls ==
    (Impls \X KnownInputs \X {-1, 0, 2})
    \cup ({"validated"} \X KnownInputs
            \X {MinIterations - 1, MinIterations, MaxIterations + 1})
    \cup ({"simple", "batched"} \X (StageInputs \cup FaultyInputs)
            \X {MinIterations})
    \cup {<<"batched", SampleCards(5), batchSizeBatched + 1>>}

(***************************************************************************)
(* A call of monteCarloSimulation, iteration by iteration.                 *)
(***************************************************************************)
\* (counter / total) * 100 as the exact fraction num / den
Pct(counter, total) == [num |-> counter * 100, den |-> total]

MakeResult(w, t, l, total) ==
    [win |-> Pct(w, total), tie |-> Pct(t, total), lose |-> Pct(l, total),
     iterations |-> total]

\* useState initial values, App.tsx lines 43-56 and 65, CardPicker.tsx line 65
InitialAdvice ==
    [action |-> "Select your 2 hole cards to begin", confidence |-> "low",
     stage |-> "preflop"]

AppIdle ==
    /\ selected = << >> /\ selectedCards = << >> /\ fastMode = TRUE
    /\ simulationResult = << >> /\ advice = InitialAdvice
    /\ isSimulating = FALSE /\ simulationError = << >>
    /\ currentSimulationRef = 0 /\ effectPending = FALSE
    /\ sims = {} /\ superseded = 0

\* No function call under observation.
callIdle == callee = "" /\ args = << >> /\ outcome = <<"pending">>

\* No pair of calls under observation.
pairIdle == calls = << >> /\ frames = << >>

\* OpenAIAdvisor as it is mounted: its useState and useRef initial values, no
\* effect run yet.
advisorIdle ==
    /\ aiAdvice = << >> /\ isLoading = FALSE /\ usingFallback = FALSE
    /\ lastRequestCards = << >> /\ currentRequestRef = 0
    /\ timer = << >> /\ requests = {} /\ advisorSeen = << >>

InitSim ==
    /\ \E c \in Calls :
        /\ impl = c[1] /\ knownCards = c[2] /\ iterations = c[3]
    /\ pc = "call"
    /\ remainingCards = << >>
    /\ batch = 0 /\ i = 0
    /\ wins = 0 /\ ties = 0 /\ losses = 0 /\ processed = 0
    /\ totalWins = 0 /\ totalTies = 0 /\ totalLosses = 0 /\ totalProcessed = 0
    /\ dealt = << >>
    /\ attempted = 0 /\ classified = 0
    /\ error = "" /\ result = << >>
    /\ AppIdle
    /\ callIdle /\ pairIdle /\ advisorIdle

\* Entry of the function up to its loop: validation, remaining deck, counters.
Call ==
    /\ pc = "call"
    /\ LET e == Validation(impl, knownCards, iterations)
       IN  IF e # ""
           THEN /\ pc' = "thrown" /\ error' = e
                /\ UNCHANGED remainingCards
           ELSE /\ pc' = "loop"
                /\ remainingCards' = filterNotIn(generateDeck, knownCards)
                /\ UNCHANGED error
    /\ UNCHANGED <<advisorVars, pairVars, callVars, impl, knownCards, iterations, batch, i, wins, ties, losses,
                   processed, totalWins, totalTies, totalLosses,
                   totalProcessed, dealt,
                   attempted, classified, result, appVars>>

\* A shuffle whose loop writes to the array it was given.
argumentAfterShuffle_inPlace(array, shuffled) == shuffled

\* const shuffled = [...array]: the loop of shuffleArray writes to the copy,
\* and the array of the caller is after the call what it was before.
argumentAfterShuffle(array, shuffled) == array

\* const shuffled = shuffleArray(remainingCards)
Deal(s) ==
    LET shuffled == shuffleArray(remainingCards,
                                 RandomDraws(s, Len(remainingCards)))
    IN  /\ dealt' = slice(shuffled, 0, 2 + communityNeeded)
        /\ remainingCards' = argumentAfterShuffle(remainingCards, shuffled)

\* A catch that counts the failed iteration as a loss.
Tallied_throwIsLoss(o, counter, class) ==
    IF o = class \/ (o = "throw" /\ class = "lose") THEN counter + 1
    ELSE counter

\* A counter after an iteration that ended as o: wins++, ties++ or losses++
\* in the branch of the classification, nothing in the catch.
Tallied(o, counter, class) == IF o = class THEN counter + 1 ELSE counter

\* The counters after an iteration that ended as o.
Count(o) ==
    /\ wins' = Tallied(o, wins, "win")
    /\ ties' = Tallied(o, ties, "tie")
    /\ losses' = Tallied(o, losses, "lose")

\* A total that keeps the last batch only.
Accumulate_overwrite(total, part) == part

\* totalWins += batchResult.wins, and so on
Accumulate(total, part) == total + part

\* No check of the classified count before the division.
NoValid_unchecked(total) == FALSE

\* if (total === 0), if (totalProcessed === 0), if (validSimulations === 0)
NoValid(total) == total = 0

IsClassified(o) == o \in {"win", "tie", "lose"}

\* Hand.solve twice and Hand.winners: a throw, or the classification.
HandOutcomes == {"throw"} \cup {Classify(w) : w \in WinnersArrays}

\* "simple": one pass of the for loop, lines 93-137.
IterateSimple ==
    /\ pc = "loop" /\ impl = "simple"
    /\ i < iterations
    /\ \E s \in 0..(RandomLevels - 1) : Deal(s)
    /\ \E o \in HandOutcomes :
        /\ Count(o)
        /\ classified' = IF IsClassified(o) THEN classified + 1 ELSE classified
    /\ i' = i + 1
    /\ attempted' = attempted + 1
    /\ UNCHANGED <<advisorVars, pairVars, callVars, impl, knownCards, iterations, pc, batch,
                   processed, totalWins, totalTies, totalLosses,
                   totalProcessed, error, result, appVars>>

\* "simple": after the loop, lines 139-154.
FinishSimple ==
    /\ pc = "loop" /\ impl = "simple"
    /\ ~(i < iterations)
    /\ LET total == wins + ties + losses
       IN  IF NoValid(total)
           THEN /\ pc' = "thrown" /\ error' = "No valid simulations completed"
                /\ UNCHANGED result
           ELSE /\ pc' = "returned"
                /\ result' = <<MakeResult(wins, ties, losses, total)>>
                /\ UNCHANGED error
    /\ UNCHANGED <<advisorVars, pairVars, callVars, impl, knownCards, iterations, remainingCards, batch, i,
                   wins, ties, losses, processed, totalWins, totalTies,
                   totalLosses, totalProcessed, dealt,
                   attempted, classified, appVars>>


\* A last batch as long as the others.
currentBatchSize_full == batchSizeBatched

\* "batched": totalBatches and currentBatchSize, lines 366-371.
totalBatches == Ceil(iterations, batchSizeBatched)
currentBatchSize == Min(batchSizeBatched, iterations - (batch * batchSizeBatched))

\* "batched": one pass of processBatch's loop (lines 281-306) with its
\* processIteration (lines 222-262); the pass that ends the batch also
\* returns from processBatch and adds the batch to the totals (lines 374-379).
IterateBatched ==
    /\ pc = "loop" /\ impl = "batched"
    /\ batch < totalBatches
    /\ \E s \in 0..(RandomLevels - 1) : Deal(s)
    /\ \E o \in HandOutcomes :
        /\ classified' = IF IsClassified(o) THEN classified + 1 ELSE classified
        /\ LET w == Tallied(o, wins, "win")
               t == Tallied(o, ties, "tie")
               l == Tallied(o, losses, "lose")
               p == IF IsClassified(o) THEN processed + 1 ELSE processed
           IN  IF i + 1 < currentBatchSize
               THEN /\ wins' = w /\ ties' = t /\ losses' = l /\ processed' = p
                    /\ i' = i + 1
                    /\ UNCHANGED <<batch, totalWins, totalTies, totalLosses,
                                   totalProcessed>>
               ELSE /\ totalWins' = Accumulate(totalWins, w)
                    /\ totalTies' = Accumulate(totalTies, t)
                    /\ totalLosses' = Accumulate(totalLosses, l)
                    /\ totalProcessed' = Accumulate(totalProcessed, p)
                    /\ batch' = batch + 1
                    /\ wins' = 0 /\ ties' = 0 /\ losses' = 0 /\ processed' = 0
                    /\ i' = 0
    /\ attempted' = attempted + 1
    /\ UNCHANGED <<advisorVars, pairVars, callVars, impl, knownCards, iterations, pc, error,
                   result, appVars>>

\* "batched": after the batch loop, lines 387-400.
FinishBatched ==
    /\ pc = "loop" /\ impl = "batched"
    /\ ~(batch < totalBatches)
    /\ IF NoValid(totalProcessed)
       THEN /\ pc' = "thrown" /\ error' = "No valid iterations completed"
            /\ UNCHANGED result
       ELSE /\ pc' = "returned"
            /\ result' = <<MakeResult(totalWins, totalTies, totalLosses,
                                      totalProcessed)>>
            /\ UNCHANGED error
    /\ UNCHANGED <<advisorVars, pairVars, callVars, impl, knownCards, iterations, remainingCards, batch, i,
                   wins, ties, losses, processed, totalWins, totalTies,
                   totalLosses, totalProcessed, dealt,
                   attempted, classified, appVars>>

\* "validated": batchEnd, part_004 lines 134-135.
batchEnd == Min((batch * batchSizeValidated) + batchSizeValidated, iterations)

\* "validated": one pass of the inner for loop, part_004 lines 137-184;
\* processed is validSimulations.
IterateValidated ==
    /\ pc = "loop" /\ impl = "validated"
    /\ batch < Ceil(iterations, batchSizeValidated)
    /\ \E s \in 0..(RandomLevels - 1) : Deal(s)
    /\ \E h \in HandOutcomes :
        /\ LET o == IF Len(communityCards) + Len(slice(dealt', 2, 2 + communityNeeded)) # 5 THEN "skip" ELSE h
           IN  /\ Count(o)
               /\ processed' = IF IsClassified(o) THEN processed + 1
                               ELSE processed
               /\ classified' = IF IsClassified(o) THEN classified + 1
                                ELSE classified
    /\ i' = i + 1
    /\ batch' = IF i + 1 < batchEnd THEN batch ELSE batch + 1
    /\ attempted' = attempted + 1
    /\ UNCHANGED <<advisorVars, pairVars, callVars, impl, knownCards, iterations, pc,
                   totalWins, totalTies, totalLosses, totalProcessed, error,
                   result, appVars>>

\* "validated": after the loops, part_004 lines 192-213.
FinishValidated ==
    /\ pc = "loop" /\ impl = "validated"
    /\ ~(batch < Ceil(iterations, batchSizeValidated))
    /\ IF NoValid(processed)
       THEN /\ pc' = "thrown" /\ error' = "No valid simulations completed"
            /\ UNCHANGED result
       ELSE /\ pc' = "returned"
            /\ result' = <<MakeResult(wins, ties, losses, processed)>>
            /\ UNCHANGED error
    /\ UNCHANGED <<advisorVars, pairVars, callVars, impl, knownCards, iterations, remainingCards, batch, i,
                   wins, ties, losses, processed, totalWins, totalTies,
                   totalLosses, totalProcessed, dealt,
                   attempted, classified, appVars>>

NextSim ==
    \/ Call
    \/ IterateSimple \/ FinishSimple
    \/ IterateBatched \/ FinishBatched
    \/ IterateValidated \/ FinishValidated

SpecSim == InitSim /\ [][NextSim]_vars

-----------------------------------------------------------------------------
(***************************************************************************)
(* BetAdvisor.  An advice is its action, confidence and stage; the         *)
(* reasoning text is left out.                                             *)
(***************************************************************************)
\* Array.prototype.indexOf, 0-based, -1 when absent
indexOf(array, x) ==
    IF includes(array, x)
    THEN (CHOOSE k \in 1..Len(array) :
            array[k] = x /\ \A m \in 1..(k - 1) : array[m] # x) - 1
    ELSE -1

getGameStage(cardCount) ==
    IF cardCount <= 2 THEN "preflop"
    ELSE IF cardCount <= 5 THEN "flop"
    ELSE IF cardCount = 6 THEN "turn"
    ELSE "river"

Advice(action, confidence, stage) ==
    [action |-> action, confidence |-> confidence, stage |-> stage]

\* card[0] and card[1] of the source are the first two characters of a token.
getPreflopAdvice(holeCards) ==
    IF Len(holeCards) # 2
    THEN Advice("Select exactly 2 hole cards", "low", "preflop")
    ELSE
    LET rank1 == holeCards[1][1]
        suit1 == holeCards[1][2]
        rank2 == holeCards[2][1]
        suit2 == holeCards[2][2]
        suited == suit1 = suit2
        ranks == <<rank1, rank2>>
        strongRanks == <<"A", "K", "Q", "J", "T">>
        isPair == rank1 = rank2
        otherRank == IF rank1 = "K" \/ rank1 = "Q" THEN rank2 ELSE rank1
        rankOrder == <<"2", "3", "4", "5", "6", "7", "8", "9", "T", "J",
                       "Q", "K", "A">>
        isTrash == /\ (includes(ranks, "2") \/ includes(ranks, "3"))
                   /\ ~suited
                   /\ ~\E k \in 1..Len(strongRanks) :
                          includes(ranks, strongRanks[k])
    IN  IF isPair /\ rank1 = "A"
        THEN Advice("Pocket Rockets - Max it! (4x Bet)", "high", "preflop")
        ELSE IF isPair
        THEN Advice("4x Bet (Pair)", "high", "preflop")
        ELSE IF (rank1 = "A" \/ rank2 = "A") /\ suited
        THEN Advice("4x Bet (Suited Ace)", "high", "preflop")
        ELSE IF includes(strongRanks, rank1) /\ includes(strongRanks, rank2)
        THEN IF suited
             THEN Advice("4x Bet (Strong Combo)", "high", "preflop")
             ELSE IF includes(ranks, "A") /\ includes(ranks, "K")
             THEN Advice("4x Bet (Big Slick)", "high", "preflop")
             ELSE Advice("2x Bet (Playable)", "medium", "preflop")
        ELSE IF /\ (rank1 = "K" \/ rank2 = "K" \/ rank1 = "Q" \/ rank2 = "Q")
                /\ suited
                /\ indexOf(rankOrder, otherRank) >= 4
        THEN Advice("2x Bet (Playable)", "medium", "preflop")
        ELSE IF isTrash
        THEN Advice("Check or Fold", "high", "preflop")
        ELSE Advice("Check or Fold", "medium", "preflop")

getPostflopAdvice(winPercent, stage) ==
    IF winPercent > 60
    THEN Advice("Bet 3x (Strong Position)", "high", stage)
    ELSE IF winPercent > 40
    THEN Advice("Bet 2x or Check (Decent Chance)", "medium", stage)
    ELSE Advice("Fold (Too Risky)", "high", stage)

(***************************************************************************)
(* App and CardPicker.  A runSimulation closure in flight is a record of   *)
(* sims: the token, cards and stage it captured, its iteration count, the  *)
(* number of batches it has started, and the message of a failed           *)
(* validation.  A batch is what runs between two awaited timeouts of the   *)
(* main loop: batchSize iterations in "batched", the iterations up to the  *)
(* next multiple of yieldEvery in "simple".                                *)
(***************************************************************************)
fastIterations == 300
slowIterations == 1000
yieldEvery == 100

\* The cards the user clicks on, in the order they are first picked.
PickCards == SampleCards(MaxPick)

\* The win percentages a finished simulation reports.
WinSamples == {40, 41, 60, 61}

\* Batches of a call with n iterations.
Batches(im, n) ==
    IF im = "batched" THEN Ceil(n, batchSizeBatched)
    ELSE ((n - 1) \div yieldEvery) + 1

\* Array.prototype.filter(c => c !== card)
filterNot(array, card) == filterNotIn(array, <<card>>)

\* A comparison with the token read before the effect advanced it.
IsCurrent_tokenBefore(thisSimulation) ==
    currentSimulationRef = thisSimulation - 1

\* A completion that publishes whatever the token.
IsCurrent_always(thisSimulation) == TRUE

\* App.tsx lines 162 and 189
IsCurrent(thisSimulation) == currentSimulationRef = thisSimulation

simIdle ==
    /\ pc = "call" /\ knownCards = << >> /\ iterations = 0
    /\ remainingCards = << >>
    /\ batch = 0 /\ i = 0
    /\ wins = 0 /\ ties = 0 /\ losses = 0 /\ processed = 0
    /\ totalWins = 0 /\ totalTies = 0 /\ totalLosses = 0 /\ totalProcessed = 0
    /\ dealt = << >>
    /\ attempted = 0 /\ classified = 0
    /\ error = "" /\ result = << >>

\* The component after its first render: the effect of the mount is due.
Init ==
    /\ impl \in {"simple", "batched"}
    /\ simIdle
    /\ selected = << >> /\ selectedCards = << >> /\ fastMode = TRUE
    /\ simulationResult = << >> /\ advice = InitialAdvice
    /\ isSimulating = FALSE /\ simulationError = << >>
    /\ currentSimulationRef = 0 /\ effectPending = TRUE
    /\ sims = {} /\ superseded = 0
    /\ callIdle /\ pairIdle /\ advisorIdle

\* An event handler runs once the effect of the last render has run, and
\* while currentSimulationRef is under MaxToken.
UserMay ==
    /\ ~effectPending
    /\ currentSimulationRef < MaxToken

\* CardPicker.toggleCard, with onSelect = setSelectedCards.  The user clicks
\* the card picked last or the next card of PickCards.
toggleCard(card) ==
    /\ UserMay
    /\ IF includes(selected, card)
       THEN /\ selected' = filterNot(selected, card)
            /\ selectedCards' = filterNot(selected, card)
            /\ effectPending' = TRUE
       ELSE IF Len(selected) >= 7
       THEN UNCHANGED <<selected, selectedCards, effectPending>>
       ELSE /\ selected' = selected \o <<card>>
            /\ selectedCards' = selected \o <<card>>
            /\ effectPending' = TRUE
    /\ UNCHANGED <<advisorVars, pairVars, callVars, impl, simVars, fastMode, simulationResult, advice,
                   isSimulating, simulationError, currentSimulationRef, sims,
                   superseded>>

Clickable ==
    {PickCards[k] : k \in {Len(selected), Len(selected) + 1}
                            \cap (1..MaxPick)}

\* CardPicker.handleClearAll
handleClearAll ==
    /\ UserMay
    /\ selected' = << >>
    /\ selectedCards' = << >>
    /\ effectPending' = TRUE
    /\ UNCHANGED <<advisorVars, pairVars, callVars, impl, simVars, fastMode, simulationResult, advice,
                   isSimulating, simulationError, currentSimulationRef, sims,
                   superseded>>

\* onClick={() => setFastMode(!fastMode)}
toggleFastMode ==
    /\ UserMay
    /\ fastMode' = ~fastMode
    /\ effectPending' = TRUE
    /\ UNCHANGED <<advisorVars, pairVars, callVars, impl, simVars, selected, selectedCards, simulationResult,
                   advice, isSimulating, simulationError,
                   currentSimulationRef, sims, superseded>>

\* A reset that leaves the token as it is.
handleReset_sameToken ==
    /\ UserMay
    /\ selectedCards' = << >>
    /\ simulationResult' = << >>
    /\ simulationError' = << >>
    /\ isSimulating' = FALSE
    /\ advice' = InitialAdvice
    /\ effectPending' = TRUE
    /\ UNCHANGED <<advisorVars, pairVars, callVars, impl, simVars, selected, fastMode, sims,
                   superseded, currentSimulationRef>>

\* A reset that leaves the error message in place.
handleReset_keepsError ==
    /\ UserMay
    /\ currentSimulationRef' = currentSimulationRef + 1
    /\ selectedCards' = << >>
    /\ simulationResult' = << >>
    /\ isSimulating' = FALSE
    /\ advice' = InitialAdvice
    /\ effectPending' = TRUE
    /\ UNCHANGED <<advisorVars, pairVars, callVars, impl, simVars, selected, fastMode, sims,
                   superseded, simulationError>>

\* App.handleReset; the picker's own state is not reset.
handleReset ==
    /\ UserMay
    /\ currentSimulationRef' = currentSimulationRef + 1
    /\ selectedCards' = << >>
    /\ simulationResult' = << >>
    /\ simulationError' = << >>
    /\ isSimulating' = FALSE
    /\ advice' = InitialAdvice
    /\ effectPending' = TRUE
    /\ UNCHANGED <<advisorVars, pairVars, callVars, impl, simVars, selected, fastMode, sims, superseded>>

\* The effect on [selectedCards, fastMode], up to the first await of the
\* simulation it starts: the first batch of the call is under way.
useEffect ==
    /\ effectPending
    /\ effectPending' = FALSE
    /\ simulationError' = << >>
    /\ currentSimulationRef' = currentSimulationRef + 1
    /\ LET gameStage == getGameStage(Len(selectedCards))
           holeCards == slice(selectedCards, 0, 2)
           n == IF fastMode THEN fastIterations ELSE slowIterations
       IN  IF Len(selectedCards) < 2
           THEN /\ advice' = InitialAdvice
                /\ simulationResult' = << >>
                /\ isSimulating' = FALSE
                /\ UNCHANGED sims
           ELSE IF Len(selectedCards) = 2
           THEN /\ advice' = getPreflopAdvice(holeCards)
                /\ simulationResult' = << >>
                /\ isSimulating' = FALSE
                /\ UNCHANGED sims
           ELSE IF Len(selectedCards) < 5
           THEN /\ advice' = Advice("Add more community cards for analysis",
                                    "low", gameStage)
                /\ simulationResult' = << >>
                /\ isSimulating' = FALSE
                /\ UNCHANGED sims
           ELSE /\ isSimulating' = TRUE
                /\ advice' = Advice("Analyzing your hand...", "medium",
                                    gameStage)
                /\ sims' = sims \cup
                     {[token |-> currentSimulationRef + 1,
                       cards |-> selectedCards,
                       stage |-> gameStage,
                       iterations |-> n,
                       batch |-> 1,
                       error |-> Validation(impl, selectedCards, n)]}
                /\ UNCHANGED simulationResult
    /\ UNCHANGED <<advisorVars, pairVars, callVars, impl, simVars, selected, selectedCards, fastMode,
                   superseded>>

\* A call resumes after the timeout it awaited between two batches and
\* starts its next batch.  In "simple" an iteration that throws skips the
\* timeout behind it, so the call may go on for more than one batch.
nextBatch(s) ==
    /\ s.error = ""
    /\ s.batch < Batches(impl, s.iterations)
    /\ \E b \in (s.batch + 1)..Batches(impl, s.iterations) :
        /\ impl = "batched" => b = s.batch + 1
        /\ sims' = (sims \ {s}) \cup {[s EXCEPT !.batch = b]}
    /\ UNCHANGED <<advisorVars, pairVars, callVars, impl, simVars, selected, selectedCards, fastMode,
                   simulationResult, advice, isSimulating, simulationError,
                   currentSimulationRef, effectPending, superseded>>

\* The call has run its last batch.
Settles(s) ==
    s.error # "" \/ s.batch = Batches(impl, s.iterations)

\* runSimulation after the await, lines 159-183: the call resolved.  The
\* result object carries, as history, the token and the cards of the call
\* that made it.
simulationResolved(s) ==
    /\ Settles(s) /\ s.error = ""
    /\ sims' = sims \ {s}
    /\ IF IsCurrent(s.token)
       THEN /\ \E w \in WinSamples :
                /\ simulationResult' =
                     <<[win |-> w, tie |-> 0, lose |-> 100 - w,
                        iterations |-> s.iterations,
                        token |-> s.token, cards |-> s.cards]>>
                /\ advice' = getPostflopAdvice(w, s.stage)
            /\ isSimulating' = FALSE
            /\ simulationError' = << >>
            /\ UNCHANGED superseded
       ELSE /\ superseded' = s.token
            /\ UNCHANGED <<simulationResult, advice, isSimulating,
                           simulationError>>
    /\ UNCHANGED <<advisorVars, pairVars, callVars, impl, simVars, selected, selectedCards, fastMode,
                   currentSimulationRef, effectPending>>

\* The message of a call that classified no iteration.
NoValidMessage ==
    IF impl = "batched" THEN "No valid iterations completed"
    ELSE "No valid simulations completed"

\* runSimulation's catch, lines 184-201: the call rejected.
simulationRejected(s) ==
    /\ Settles(s)
    /\ sims' = sims \ {s}
    /\ IF IsCurrent(s.token)
       THEN /\ simulationError' =
                 <<IF s.error # "" THEN s.error ELSE NoValidMessage>>
            /\ advice' = Advice("Calculation Error", "low", s.stage)
            /\ isSimulating' = FALSE
            /\ UNCHANGED superseded
       ELSE /\ UNCHANGED <<simulationError, advice, isSimulating>>
            /\ superseded' = s.token
    /\ UNCHANGED <<advisorVars, pairVars, callVars, impl, simVars, selected, selectedCards, fastMode,
                   simulationResult, currentSimulationRef, effectPending>>

Next ==
    \/ \E card \in Clickable : toggleCard(card)
    \/ handleClearAll
    \/ toggleFastMode
    \/ handleReset
    \/ useEffect
    \/ \E s \in sims : nextBatch(s)
    \/ \E s \in sims : simulationResolved(s)
    \/ \E s \in sims : simulationRejected(s)

Spec == Init /\ [][Next]_vars

\* A step of a call in flight.
simulationStep ==
    \E s \in sims :
        nextBatch(s) \/ simulationResolved(s) \/ simulationRejected(s)

\* The event loop runs the timeouts and the promise reactions of the calls
\* in flight: every started call goes on to its completion.  Nothing makes
\* the user act.
SpecLive ==
    /\ Init /\ [][Next]_vars
    /\ WF_vars(simulationStep)

\* Calls of one iteration, of one and of two whole batches, and of a batch
\* and one more iteration.
LoopCalls ==
    ({"simple"} \X {SampleCards(7)}
        \X {1, batchSizeBatched + 1, batchSizeValidated + 1})
    \cup ({"batched"} \X {SampleCards(7)}
        \X {1, batchSizeBatched, batchSizeBatched + 1, 2 * batchSizeBatched})
    \cup ({"validated"} \X {SampleCards(7)}
        \X {MinIterations, batchSizeValidated, batchSizeValidated + 1})

InitLoop ==
    /\ \E c \in LoopCalls :
        /\ impl = c[1] /\ knownCards = c[2] /\ iterations = c[3]
    /\ pc = "call"
    /\ remainingCards = << >>
    /\ batch = 0 /\ i = 0
    /\ wins = 0 /\ ties = 0 /\ losses = 0 /\ processed = 0
    /\ totalWins = 0 /\ totalTies = 0 /\ totalLosses = 0 /\ totalProcessed = 0
    /\ dealt = << >>
    /\ attempted = 0 /\ classified = 0
    /\ error = "" /\ result = << >>
    /\ AppIdle
    /\ callIdle /\ pairIdle /\ advisorIdle

\* The loops of the three definitions branch on whether an iteration threw,
\* never on how it was classified nor on the cards it dealt: an iteration
\* here deals with the first draws and is a win or a throw.
WinOrThrow ==
    /\ Deal(0)
    /\ ties' = ties /\ losses' = losses
    /\ totalTies' = totalTies /\ totalLosses' = totalLosses

NextLoop ==
    \/ Call
    \/ (IterateSimple /\ WinOrThrow) \/ FinishSimple
    \/ (IterateBatched /\ WinOrThrow) \/ FinishBatched
    \/ (IterateValidated /\ WinOrThrow) \/ FinishValidated

SpecLoop == InitLoop /\ [][NextLoop]_vars

-----------------------------------------------------------------------------
(***************************************************************************)
(* OpenAIAdvisor inside App.  Its props are App's selectedCards and        *)
(* simulationResult.  React runs the effect of the child before the effect *)
(* of the parent, and both before the next event, timeout or promise       *)
(* reaction.  An advice is recorded by where it comes from: the cards and  *)
(* the simulation result of the render whose getAdvice asked for it.       *)
(***************************************************************************)
\* Array.prototype.join(',')
RECURSIVE joinComma(_)
joinComma(parts) ==
    IF parts = << >> THEN << >>
    ELSE IF Len(parts) = 1 THEN parts[1]
    ELSE parts[1] \o <<",">> \o joinComma(Tail(parts))

\* The dependencies [selectedCards, simulationResult] of the effect.
advisorDeps == <<selectedCards, simulationResult>>

AdvisorEffectDue == advisorSeen # <<advisorDeps>>

\* if (cardsKey !== lastRequestCards)
IsNewRequest(cardsKey) == cardsKey # lastRequestCards

\* OpenAIAdvisor's effect, lines 250-272, after the cleanup of its last run
\* (clearTimeout of the timer that run set).
advisorUseEffect ==
    /\ AdvisorEffectDue
    /\ advisorSeen' = <<advisorDeps>>
    /\ IF Len(selectedCards) >= 2 /\ ~isLoading
       THEN LET cardsKey == joinComma(selectedCards)
            IN  IF IsNewRequest(cardsKey)
                THEN /\ lastRequestCards' = cardsKey
                     /\ timer' = <<[cards |-> selectedCards,
                                    result |-> simulationResult]>>
                     /\ UNCHANGED <<aiAdvice, usingFallback>>
                ELSE /\ timer' = << >>
                     /\ UNCHANGED <<aiAdvice, usingFallback,
                                    lastRequestCards>>
       ELSE IF Len(selectedCards) < 2
       THEN /\ aiAdvice' = << >>
            /\ usingFallback' = FALSE
            /\ lastRequestCards' = << >>
            /\ timer' = << >>
       ELSE /\ timer' = << >>
            /\ UNCHANGED <<aiAdvice, usingFallback, lastRequestCards>>
    /\ UNCHANGED <<isLoading, currentRequestRef, requests, impl, simVars,
                   appVars, callVars, pairVars>>

\* No effect is waiting to run.
EffectsDone == ~AdvisorEffectDue /\ ~effectPending

\* The timeout of the effect fires: getAdvice, lines 185-207, up to the
\* await of fetch, with the props of the render that set the timer.
getAdvice ==
    /\ EffectsDone
    /\ timer # << >>
    /\ currentRequestRef' = currentRequestRef + 1
    /\ isLoading' = TRUE
    /\ usingFallback' = FALSE
    /\ requests' = requests \cup
          {[thisRequest |-> currentRequestRef + 1,
            cards |-> timer[1].cards, result |-> timer[1].result]}
    /\ timer' = << >>
    /\ UNCHANGED <<aiAdvice, lastRequestCards, advisorSeen, impl, simVars,
                   appVars, callVars, pairVars>>

\* How a fetch ends: with an advice (response.ok, data.success and
\* data.advice), or without one (another status, another payload, a network
\* error, the abort after 5 seconds).
FetchOutcomes == {"advice", "failed"}

\* getAdvice after the await, lines 209-244.
fetchSettled(r, how) ==
    /\ EffectsDone
    /\ requests' = requests \ {r}
    /\ IF currentRequestRef = r.thisRequest
       THEN /\ aiAdvice' = <<[source |-> IF how = "advice" THEN "api"
                                         ELSE "fallback",
                              cards |-> r.cards, result |-> r.result]>>
            /\ usingFallback' = IF how = "advice" THEN usingFallback ELSE TRUE
            /\ isLoading' = FALSE
       ELSE UNCHANGED <<aiAdvice, usingFallback, isLoading>>
    /\ UNCHANGED <<lastRequestCards, currentRequestRef, timer, advisorSeen,
                   impl, simVars, appVars, callVars, pairVars>>

\* A step of App; the effect of the advisor, its child, runs first.
AppStep == ~AdvisorEffectDue /\ Next

NextAdvisor ==
    \/ AppStep
    \/ advisorUseEffect
    \/ getAdvice
    \/ \E r \in requests, how \in FetchOutcomes : fetchSettled(r, how)

SpecAdvisor == Init /\ [][NextAdvisor]_vars

-----------------------------------------------------------------------------
(***************************************************************************)
(* Calls of the functions that keep no state: the call is chosen at the    *)
(* start, one step runs it to its return or its throw.                     *)
(***************************************************************************)
\* The draws of one shuffle of n elements: j in 0..i for every index i from
\* n - 1 down to 1, all values Math.floor(Math.random() * (i + 1)) can take.
DrawSeqs(n) ==
    {js \in [1..(n - 1) -> 0..(n - 1)] : \A k \in 1..(n - 1) : js[k] <= k}

\* A table whose bands for 250 and 500 valid iterations are exchanged.
calculateConfidence_bandsSwapped(n) ==
    IF n >= 2000 THEN 95
    ELSE IF n >= 1000 THEN 90
    ELSE IF n >= 500 THEN 80
    ELSE IF n >= 250 THEN 85
    ELSE 75

\* part_003, calculateConfidence
calculateConfidence(n) ==
    IF n >= 2000 THEN 95
    ELSE IF n >= 1000 THEN 90
    ELSE IF n >= 500 THEN 85
    ELSE IF n >= 250 THEN 80
    ELSE 75

\* part_003, batchSimulation.  inner[b] says how the awaited
\* monteCarloSimulation of batch b - 1 ended: "throw", or "one" / "all" for a
\* result whose iterations field is 1 / the size of the batch.  A report is
\* what onProgress receives: the iterations and the confidence of
\* currentResult (its percentages are left out).
InnerValid(how, iterationsThisBatch) ==
    IF how = "all" THEN iterationsThisBatch ELSE 1

RECURSIVE batchLoop(_, _, _, _, _, _)
batchLoop(totalIterations, batchSize, inner, b, totalValidIterations, reports) ==
    IF b < Ceil(totalIterations, batchSize)
    THEN LET iterationsThisBatch ==
                 Min(batchSize, totalIterations - (b * batchSize))
             valid == totalValidIterations
                        + InnerValid(inner[b + 1], iterationsThisBatch)
         IN  IF inner[b + 1] = "throw"
             THEN batchLoop(totalIterations, batchSize, inner, b + 1,
                            totalValidIterations, reports)
             ELSE batchLoop(totalIterations, batchSize, inner, b + 1, valid,
                            Append(reports,
                                   [iterations |-> valid,
                                    confidence |->
                                        calculateConfidence(valid)]))
    ELSE [iterations |-> totalValidIterations,
          confidence |-> calculateConfidence(totalValidIterations),
          reports |-> reports]

batchSimulation(totalIterations, batchSize, inner) ==
    batchLoop(totalIterations, batchSize, inner, 0, 0, << >>)

\* part_004, batchSimulation.  inner[k] says how the iterations of scenario
\* k - 1 end: the counters <<wins, ties, losses>>, all 0 when every
\* iteration throws.  The call of monteCarloSimulation throws then, and when
\* its validation does.
ScenarioFails(scenario, n, how) ==
    Validation("validated", scenario, n) # "" \/ how[1] + how[2] + how[3] = 0

defaultResult ==
    [win |-> Pct(0, 1), tie |-> Pct(0, 1), lose |-> Pct(100, 1),
     iterations |-> 0]

batchSimulationScenarios(scenarios, n, inner) ==
    [k \in 1..Len(scenarios) |->
        IF ScenarioFails(scenarios[k], n, inner[k]) THEN defaultResult
        ELSE MakeResult(inner[k][1], inner[k][2], inner[k][3],
                        inner[k][1] + inner[k][2] + inner[k][3])]

\* HandEvaluator.ts, evaluateHand.  solved is what Hand.solve(cards) does:
\* << >> when it throws, <<r>> when it returns r.
evaluateHand(cards, solved) ==
    IF Len(cards) < 5 THEN "Need at least 5 cards to evaluate hand"
    ELSE IF solved = << >> THEN "Error evaluating hand"
    ELSE IF solved[1].descr = "" THEN "Unknown hand"
    ELSE solved[1].descr

\* HandEvaluator.ts, getHandRank
getHandRank(cards, solved) ==
    IF Len(cards) < 5 THEN 0
    ELSE IF solved = << >> THEN 0
    ELSE IF solved[1].rank = 0 THEN 0
    ELSE solved[1].rank

\* const suitSymbols = { h: '♥', d: '♦', s: '♠', c: '♣' }, each symbol
\* written as its code point; suitSymbols[suit] || suit
suitSymbol(suit) ==
    CASE suit = "h" -> "U+2665"
      [] suit = "d" -> "U+2666"
      [] suit = "s" -> "U+2660"
      [] suit = "c" -> "U+2663"
      [] OTHER -> suit

\* cards.map(card => `${rank}${symbol}`) of formatCards: the characters of
\* one card.
formatCard(card) ==
    LET rank == IF card[1] = "T" THEN <<"1", "0">> ELSE <<card[1]>>
        suit == card[2]
    IN  rank \o <<suitSymbol(suit)>>

\* Array.prototype.join(' ')
RECURSIVE joinSpace(_)
joinSpace(parts) ==
    IF parts = << >> THEN << >>
    ELSE IF Len(parts) = 1 THEN parts[1]
    ELSE parts[1] \o <<" ">> \o joinSpace(Tail(parts))

\* HandEvaluator.ts, formatCards
formatCards(cards) ==
    joinSpace([k \in 1..Len(cards) |-> formatCard(cards[k])])

\* The results of Hand.solve.
SolveSamples ==
    {<< >>, <<[descr |-> "Pair, A's", rank |-> 2]>>,
     <<[descr |-> "", rank |-> 0]>>}

RankCalls ==
    {<<f, <<SampleCards(n), solved>>>> :
        f \in {"evaluateHand", "getHandRank"}, n \in 0..7,
        solved \in SolveSamples}

\* The hole cards of the calls of getPreflopAdvice.
HoleSamples ==
    {<<"1", "0", "h">>, <<"1", "0", "d">>, <<"A", "h">>, <<"K", "h">>,
     <<"K", "d">>, <<"7", "h">>, <<"2", "c">>}

ParseCalls ==
    {<<"formatCards", <<cards>>>> :
        cards \in {<<generateDeck[k]>> : k \in 1..Len(generateDeck)}
                    \cup {<< >>, SampleCards(2), SampleCards(3)}}
    \cup UNION {{<<"getPreflopAdvice", <<<<a, b>>>>>> :
                    b \in HoleSamples \ {a}} : a \in HoleSamples}
    \cup {<<"getPreflopAdvice", <<SampleCards(3)>>>>}
    \cup {<<"convertCardForSolver", <<generateDeck[k]>>>> :
            k \in 1..Len(generateDeck)}

\* OpenAIAdvisor.tsx, generateFallbackAdvice: the advice after the flop,
\* from winRate = simulationResult.win.
generateFallbackAdvice(winRate) ==
    IF winRate >= 70
    THEN [recommendation |-> "Bet 3x Aggressively", confidence |-> "high",
          riskLevel |-> "aggressive"]
    ELSE IF winRate >= 55
    THEN [recommendation |-> "Bet 3x Confidently", confidence |-> "high",
          riskLevel |-> "moderate"]
    ELSE IF winRate >= 45
    THEN [recommendation |-> "Bet 2x Cautiously", confidence |-> "medium",
          riskLevel |-> "moderate"]
    ELSE IF winRate >= 35
    THEN [recommendation |-> "Check and Evaluate", confidence |-> "medium",
          riskLevel |-> "conservative"]
    ELSE [recommendation |-> "Consider Folding", confidence |-> "high",
          riskLevel |-> "conservative"]

\* part_005, getPostflopAdvice (the actions without their emoji)
getPostflopAdvice_part005(winPercent, stage) ==
    IF winPercent > 75
    THEN Advice("Bet 3x - Monster hand!", "high", stage)
    ELSE IF winPercent > 60
    THEN Advice("Bet 3x - Strong position!", "high", stage)
    ELSE IF winPercent > 50
    THEN Advice("Check or Bet 2x - Good hand", "medium", stage)
    ELSE IF winPercent > 40
    THEN Advice("Check - Marginal hand", "medium", stage)
    ELSE IF winPercent > 30
    THEN Advice("Check - Weak hand", "low", stage)
    ELSE Advice("Fold - Very weak", "high", stage)

\* The whole win rates.
WinRates == 0..100

AdviceCalls ==
    {<<f, <<w, stage>>>> :
        f \in {"getPostflopAdvice", "getPostflopAdvice_part005"},
        w \in WinRates, stage \in {"flop", "river"}}
    \cup {<<"generateFallbackAdvice", <<w>>>> : w \in WinRates}

ConfidenceCalls ==
    {<<"calculateConfidence", <<n>>>> :
        n \in {0, 1, 249, 250, 251, 499, 500, 999, 1000, 1999, 2000, 10000}}

BatchCalls ==
    {<<"batchSimulation", <<c[1], c[2], inner>>>> :
        c \in {<<2000, 500>>, <<600, 250>>},
        inner \in [1..4 -> {"throw", "one", "all"}]}

ScenarioCalls ==
    {<<"batchSimulationScenarios", <<scenarios, fastIterations, inner>>>> :
        scenarios \in {<<SampleCards(1), SampleCards(5)>>,
                       <<SampleCards(5), SampleCards(6)>>},
        inner \in [1..2 -> {<<0, 0, 0>>, <<fastIterations, 0, 0>>,
                            <<1, 1, 1>>}]}

ShuffleCalls ==
    UNION {{<<"shuffleArray", <<SampleCards(n), js>>>> : js \in DrawSeqs(n)} :
            n \in 0..MaxShuffle}

\* api/openai-advice.js.  A response is the status, whether a JSON body was
\* sent (res.json) or none (res.end), and the fields of the body: success and
\* advice are << >> when the body has no such field.
end(status) == [status |-> status, json |-> FALSE, success |-> << >>, error |-> "", advice |-> << >>]

json(status, success, message, value) == [status |-> status, json |-> TRUE, success |-> success, error |-> message, advice |-> value]

\* The catch of lines 130-136.
internalServerError(message) == json(500, <<FALSE>>, "Internal server error: " \o message, << >>)

\* Lines 82-89.
errorMessage(status) ==
    IF status = 401 THEN "Invalid OpenAI API key"
    ELSE IF status = 429 THEN "OpenAI API rate limit exceeded"
    ELSE IF status = 402 THEN "OpenAI API quota exceeded"
    ELSE "OpenAI API request failed"

\* Texts the model can answer with, and what JSON.parse makes of each: an
\* object, another JSON value, or a SyntaxError (<< >>).
ContentTexts == {"{recommendation, reasoning, confidence, riskLevel}", "{}", "null", "42", "[]", "Bet 4x", ""}

JSONparse(text) ==
    IF text \in {"{recommendation, reasoning, confidence, riskLevel}", "{}"}
    THEN <<[type |-> "object", text |-> text]>>
    ELSE IF text = "null" THEN <<[type |-> "null", text |-> text]>>
    ELSE IF text = "42" THEN <<[type |-> "number", text |-> text]>>
    ELSE IF text = "[]" THEN <<[type |-> "array", text |-> text]>>
    ELSE << >>

\* Lines 113-124: the parsed text, or an advice object made of the text.
parsedAdvice(aiAdvice_) ==
    IF JSONparse(aiAdvice_) # << >> THEN JSONparse(aiAdvice_)[1]
    ELSE [type |-> "object", text |-> "{recommendation, reasoning: text, confidence: medium, riskLevel: moderate}"]

\* What the fetch of lines 47-76 comes to: it rejects, or it resolves with a
\* status and a body.  The body is not JSON, or JSON of one of these shapes;
\* the content of the message is null or a text.
UpstreamShapes == {"notJson", "null", "noChoices", "emptyChoices", "noMessage", "message"}

Upstreams ==
    {[rejects |-> TRUE, status |-> 0, shape |-> "notJson", content |-> << >>]}
    \cup {[rejects |-> FALSE, status |-> s, shape |-> "notJson", content |-> << >>] : s \in {401, 402, 429, 500}}
    \cup {[rejects |-> FALSE, status |-> 200, shape |-> sh, content |-> << >>] : sh \in UpstreamShapes}
    \cup {[rejects |-> FALSE, status |-> 200, shape |-> "message", content |-> <<t>>] : t \in ContentTexts}

\* response.ok
ok(response) == response.status \in 200..299

\* handler(req, res), lines 8-137, with process.env.OPENAI_API_KEY and the
\* outcome of the fetch as further arguments; the value is the sequence of
\* the responses it sends.  req.body is absent (undefined or null) when the
\* host parsed no body.
handler(req, apiKey, response) ==
    IF req.method = "OPTIONS" THEN <<end(200)>>
    ELSE IF req.method # "POST"
    THEN <<json(405, << >>, "Method not allowed", << >>)>>
    ELSE IF ~req.hasBody
    THEN <<internalServerError("Cannot destructure property 'prompt'")>>
    ELSE IF req.prompt \in {<< >>, <<"">>}
    THEN <<json(400, <<FALSE>>, "Prompt is required", << >>)>>
    ELSE IF apiKey = ""
    THEN <<json(500, <<FALSE>>, "OpenAI API key not configured. Please add OPENAI_API_KEY to your environment variables.", << >>)>>
    ELSE IF response.rejects
    THEN <<internalServerError("fetch failed")>>
    ELSE IF ~ok(response)
    THEN <<json(500, <<FALSE>>, errorMessage(response.status), << >>)>>
    ELSE IF response.shape = "notJson"
    THEN <<internalServerError("Unexpected token")>>
    ELSE IF response.shape = "null"
    THEN <<internalServerError("Cannot read properties of null")>>
    ELSE IF response.shape \in {"noChoices", "emptyChoices", "noMessage"}
    THEN <<json(500, <<FALSE>>, "Invalid OpenAI API response format", << >>)>>
    ELSE IF response.content = << >>
    THEN <<internalServerError("Cannot read properties of undefined")>>
    ELSE <<json(200, <<TRUE>>, "", <<parsedAdvice(response.content[1])>>)>>

Requests ==
    {[method |-> m, hasBody |-> FALSE, prompt |-> << >>] : m \in {"OPTIONS", "GET", "PUT", "DELETE", "POST"}}
    \cup {[method |-> m, hasBody |-> TRUE, prompt |-> p] :
            m \in {"OPTIONS", "GET", "POST"},
            p \in {<< >>, <<"">>, <<"My cards: 4c, 7s">>}}

HandlerCalls ==
    {<<"handler", <<req, apiKey, response>>>> :
        req \in Requests, apiKey \in {"", "sk-test"}, response \in Upstreams}

FnCalls ==
    ShuffleCalls \cup ConfidenceCalls \cup BatchCalls \cup ScenarioCalls
        \cup RankCalls \cup ParseCalls \cup AdviceCalls \cup HandlerCalls

InitFn ==
    /\ impl = "simple"
    /\ simIdle
    /\ AppIdle
    /\ pairIdle /\ advisorIdle
    /\ \E c \in FnCalls : callee = c[1] /\ args = c[2]
    /\ outcome = <<"pending">>

Returns(value) ==
    /\ outcome = <<"pending">>
    /\ outcome' = <<"returned", value>>
    /\ UNCHANGED <<callee, args, impl, simVars, appVars, pairVars, advisorVars>>

Throws(message) ==
    /\ outcome = <<"pending">>
    /\ outcome' = <<"thrown", message>>
    /\ UNCHANGED <<callee, args, impl, simVars, appVars, pairVars, advisorVars>>

CallShuffleArray ==
    /\ callee = "shuffleArray"
    /\ Returns(shuffleArray(args[1], args[2]))

CallCalculateConfidence ==
    /\ callee = "calculateConfidence"
    /\ Returns(calculateConfidence(args[1]))

\* part_003, batchSimulation: after the loop
CallBatchSimulation ==
    /\ callee = "batchSimulation"
    /\ LET r == batchSimulation(args[1], args[2], args[3])
       IN  IF r.iterations = 0
           THEN Throws("No valid iterations completed in batch simulation")
           ELSE Returns(r)

CallBatchSimulationScenarios ==
    /\ callee = "batchSimulationScenarios"
    /\ Returns(batchSimulationScenarios(args[1], args[2], args[3]))

CallEvaluateHand ==
    /\ callee = "evaluateHand"
    /\ Returns(evaluateHand(args[1], args[2]))

CallGetHandRank ==
    /\ callee = "getHandRank"
    /\ Returns(getHandRank(args[1], args[2]))

CallFormatCards ==
    /\ callee = "formatCards"
    /\ Returns(formatCards(args[1]))

CallGetPreflopAdvice ==
    /\ callee = "getPreflopAdvice"
    /\ Returns(getPreflopAdvice(args[1]))

CallConvertCardForSolver ==
    /\ callee = "convertCardForSolver"
    /\ Returns(convertCardForSolver(args[1]))

CallGetPostflopAdvice ==
    /\ callee = "getPostflopAdvice"
    /\ Returns(getPostflopAdvice(args[1], args[2]))

CallGetPostflopAdvice_part005 ==
    /\ callee = "getPostflopAdvice_part005"
    /\ Returns(getPostflopAdvice_part005(args[1], args[2]))

CallGenerateFallbackAdvice ==
    /\ callee = "generateFallbackAdvice"
    /\ Returns(generateFallbackAdvice(args[1]))

CallHandler ==
    /\ callee = "handler"
    /\ Returns(handler(args[1], args[2], args[3]))

NextFn ==
    \/ CallShuffleArray
    \/ CallCalculateConfidence
    \/ CallBatchSimulation
    \/ CallBatchSimulationScenarios
    \/ CallEvaluateHand
    \/ CallGetHandRank
    \/ CallFormatCards
    \/ CallGetPreflopAdvice
    \/ CallConvertCardForSolver
    \/ CallGetPostflopAdvice
    \/ CallGetPostflopAdvice_part005
    \/ CallGenerateFallbackAdvice
    \/ CallHandler

SpecFn == InitFn /\ [][NextFn]_vars

-----------------------------------------------------------------------------
(***************************************************************************)
(* Two calls of monteCarloSimulation in one event loop.  The code between  *)
(* two awaited timeouts runs without interruption, so a step is a call's   *)
(* run from one await to the next.  frames holds the variables the code    *)
(* declares, one record per scope; a call works on the record of its own   *)
(* activation.  The history of a call lists, await by await, what its      *)
(* iterations drew: how many it ran and how many of them were a win, a     *)
(* tie and a loss.                                                         *)
(***************************************************************************)
innerYieldEvery == 10

\* A scope that is the module and not the activation of the call.
Scope_module(c) == 1

\* let wins = 0, ... and const remainingCards = ... are declared in the body
\* of the function: every call has its own.
Scope(c) == c

PairCalls == {1, 2}

\* The known cards of the two calls.
PairKnown(c) == IF c = 1 THEN SampleCards(5) ELSE SampleCards(6)

\* Iteration counts with an await inside the loop and, in "batched", a
\* second batch.
PairIterations ==
    IF impl = "batched" THEN batchSizeBatched + 1 ELSE yieldEvery + 2

\* What the m iterations of a run between two awaits drew.
ChunkDraws(m) ==
    {<<m, 0, 0>>, <<0, 0, 0>>,
     IF m >= 3 THEN <<1, 1, m - 3>> ELSE <<0, 1, 0>>}

emptyFrame ==
    [remainingCards |-> << >>, wins |-> 0, ties |-> 0, losses |-> 0,
     processed |-> 0, totalWins |-> 0, totalTies |-> 0, totalLosses |-> 0,
     totalProcessed |-> 0]

InitPair ==
    /\ impl \in {"simple", "batched"}
    /\ simIdle /\ AppIdle /\ callIdle /\ advisorIdle
    /\ calls = [c \in PairCalls |->
                  [knownCards |-> PairKnown(c), iterations |-> PairIterations,
                   pc |-> "idle", batch |-> 0, i |-> 0, history |-> << >>,
                   result |-> << >>, error |-> ""]]
    /\ frames = [c \in PairCalls |-> emptyFrame]

\* The size of the batch the call is in; the whole loop in "simple".
PairBatchSize(call) ==
    IF impl = "batched"
    THEN Min(batchSizeBatched,
             call.iterations - (call.batch * batchSizeBatched))
    ELSE call.iterations

\* The loop indices after which the call awaits a timeout.
AwaitsAfter(k) ==
    IF impl = "batched" THEN k % innerYieldEvery = 0 /\ k > 0
    ELSE k > 0 /\ k % yieldEvery = 0

\* The indices at which a run that starts at index from may stop: the next
\* index with an await or the last one of the loop; in "simple" an iteration
\* that throws skips its await, and the run goes on.
RunEnds(call, from) ==
    LET last == PairBatchSize(call) - 1
        stops == {k \in from..last : AwaitsAfter(k) \/ k = last}
        first == CHOOSE k \in stops : \A q \in stops : k <= q
    IN  IF impl = "batched" THEN {first} ELSE stops

\* A run of call c up to index to that drew d, on the frames base: the
\* counters after it and, at the end of the loop, the result or the throw.
PairRun(c, base, to, d) ==
    LET call == calls[c]
        f == base[Scope(c)]
        m == (to - call.i) + 1
        w == f.wins + d[1]
        t == f.ties + d[2]
        l == f.losses + d[3]
        p == f.processed + d[1] + d[2] + d[3]
        batchDone == to = PairBatchSize(call) - 1
        g == IF impl = "batched" /\ batchDone
             THEN [f EXCEPT !.wins = 0, !.ties = 0, !.losses = 0,
                            !.processed = 0,
                            !.totalWins = Accumulate(f.totalWins, w),
                            !.totalTies = Accumulate(f.totalTies, t),
                            !.totalLosses = Accumulate(f.totalLosses, l),
                            !.totalProcessed =
                                Accumulate(f.totalProcessed, p)]
             ELSE [f EXCEPT !.wins = w, !.ties = t, !.losses = l,
                            !.processed = p]
        loopDone == IF impl = "batched"
                    THEN batchDone
                         /\ call.batch + 1 >=
                              Ceil(call.iterations, batchSizeBatched)
                    ELSE batchDone
        total == IF impl = "batched" THEN g.totalProcessed
                 ELSE g.wins + g.ties + g.losses
        gw == IF impl = "batched" THEN g.totalWins ELSE g.wins
        gt == IF impl = "batched" THEN g.totalTies ELSE g.ties
        gl == IF impl = "batched" THEN g.totalLosses ELSE g.losses
        moved == [call EXCEPT
                    !.history = Append(call.history, <<m>> \o d),
                    !.i = IF impl = "batched" /\ batchDone THEN 0 ELSE to + 1,
                    !.batch = IF impl = "batched" /\ batchDone
                              THEN call.batch + 1 ELSE call.batch]
    IN  /\ frames' = [base EXCEPT ![Scope(c)] = g]
        /\ calls' = [calls EXCEPT ![c] =
              IF ~loopDone THEN [moved EXCEPT !.pc = "awaiting"]
              ELSE IF NoValid(total)
              THEN [moved EXCEPT !.pc = "thrown", !.error = NoValidMessage]
              ELSE [moved EXCEPT !.pc = "returned",
                                 !.result = <<MakeResult(gw, gt, gl, total)>>]]

\* A run of call c from index calls[c].i on; an await is skipped only by an
\* iteration that throws.
PairChunk(c, base) ==
    \E to \in RunEnds(calls[c], calls[c].i) :
        \E d \in ChunkDraws((to - calls[c].i) + 1) :
            /\ (\E k \in calls[c].i..(to - 1) : AwaitsAfter(k)) =>
                  d[1] + d[2] + d[3] < (to - calls[c].i) + 1
            /\ PairRun(c, base, to, d)

\* monteCarloSimulation(knownCards, iterations) up to its first await: the
\* validation, the remaining deck, the counters, the first run.
PairStart(c) ==
    /\ calls[c].pc = "idle"
    /\ Validation(impl, calls[c].knownCards, calls[c].iterations) = ""
    /\ PairChunk(c, [frames EXCEPT ![Scope(c)] =
                       [emptyFrame EXCEPT !.remainingCards =
                           filterNotIn(generateDeck, calls[c].knownCards)]])
    /\ UNCHANGED <<impl, simVars, appVars, callVars, advisorVars>>

\* The call resumes after the timeout it awaited.
PairResume(c) ==
    /\ calls[c].pc = "awaiting"
    /\ PairChunk(c, frames)
    /\ UNCHANGED <<impl, simVars, appVars, callVars, advisorVars>>

NextPair ==
    \/ \E c \in PairCalls : PairStart(c)
    \/ \E c \in PairCalls : PairResume(c)

SpecPair == InitPair /\ [][NextPair]_vars

-----------------------------------------------------------------------------
(***************************************************************************)
(* CardPicker on its own.  selected is its state, selectedCards the last   *)
(* argument of onSelect; args holds the number of clicks so far and        *)
(* outcome the number of calls of onSelect.                                *)
(***************************************************************************)
MaxClicks == 10

\* The cards of the grid the user clicks on.
PickerCards == SampleCards(MaxKnown)

\* A toggle that selects whatever the number of selected cards.
newSelection_noLimit(array, card) ==
    IF includes(array, card) THEN <<filterNot(array, card)>>
    ELSE <<array \o <<card>>>>

\* toggleCard up to setSelected: << >> when it returns early, otherwise
\* <<newSelection>>.
newSelection(array, card) ==
    IF includes(array, card) THEN <<filterNot(array, card)>>
    ELSE IF Len(array) >= 7 THEN << >>
    ELSE <<array \o <<card>>>>

InitPicker ==
    /\ impl = "simple"
    /\ simIdle
    /\ AppIdle
    /\ pairIdle /\ advisorIdle
    /\ callee = "CardPicker" /\ args = <<0>> /\ outcome = <<"onSelect", 0>>

\* The user clicks a selected card, or the first card of the grid that is
\* not selected.
PickerClickable ==
    LET free == {k \in 1..Len(PickerCards) :
                    ~includes(selected, PickerCards[k])}
    IN  Elems(selected)
        \cup {PickerCards[k] : k \in {m \in free : \A n \in free : m <= n}}

onSelect(cards) ==
    /\ selectedCards' = cards
    /\ outcome' = <<"onSelect", outcome[2] + 1>>

Click ==
    /\ args[1] < MaxClicks
    /\ args' = <<args[1] + 1>>
    /\ UNCHANGED <<callee, impl, simVars, pairVars, advisorVars, fastMode,
                   simulationResult, advice, isSimulating, simulationError,
                   currentSimulationRef, effectPending, sims, superseded>>

\* CardPicker.toggleCard
PickerToggleCard(card) ==
    /\ Click
    /\ LET new == newSelection(selected, card)
       IN  IF new = << >>
           THEN UNCHANGED <<selected, selectedCards, outcome>>
           ELSE /\ selected' = new[1]
                /\ onSelect(new[1])

\* CardPicker.handleClearAll
PickerClearAll ==
    /\ Click
    /\ selected' = << >>
    /\ onSelect(<< >>)

NextPicker ==
    \/ \E card \in PickerClickable : PickerToggleCard(card)
    \/ PickerClearAll

SpecPicker == InitPicker /\ [][NextPicker]_vars

-----------------------------------------------------------------------------
\* Vocabulary of the properties of the simulator.

\* The kind of failure a thrown message stands for.
ErrorKind(message) ==
    CASE message \in {"Need at least 2 cards",
                      "Need at least 2 cards (hole cards) for simulation",
                      "Need at least 2 cards for simulation"}
            -> "TooFewCards"
      [] message \in {"Too many cards (max 7)",
                      "Too many cards selected (max 7: 2 hole + 5 community)",
                      "Too many cards (maximum 7: 2 hole + 5 community)"}
            -> "TooManyCards"
      [] message = "Duplicate cards detected" -> "DuplicateCards"
      [] message = "Invalid card format" -> "InvalidCardFormat"
      [] message = "Iterations must be between 10 and 10,000"
            -> "InvalidIterationCount"
      [] message \in {"Not enough remaining cards",
                      "Not enough cards remaining in deck",
                      "Not enough remaining cards for simulation"}
            -> "InsufficientDeck"
      [] message \in {"No valid simulations completed",
                      "No valid iterations completed"}
            -> "NoValidSimulations"
      [] OTHER -> "None"

\* 2 to 7 distinct cards of the deck.
ValidKnown(known) ==
    /\ Len(known) \in 2..7
    /\ NoDuplicates(known)
    /\ \A k \in 1..Len(known) : includes(generateDeck, known[k])

HasDuplicate(known) == ~NoDuplicates(known)

HasInvalidToken(known) ==
    \E k \in 1..Len(known) : ~includes(generateDeck, known[k])

IterationsInRange == iterations >= MinIterations /\ iterations <= MaxIterations

\* The counters of the whole call: the totals plus the batch in progress.
TallyWins == totalWins + wins
TallyTies == totalTies + ties
TallyLosses == totalLosses + losses

Failed == pc = "thrown"
Returned == pc = "returned"
FailedAs(kind) == Failed /\ ErrorKind(error) = kind /\ result = << >>

\* The closure s leaves sims in this step: its call resolved or rejected.
Completes(s) == \A s2 \in sims' : s2.token # s.token

\* The closure s was started under a token that is no longer the current one.
Abandoned(s) == s.token # currentSimulationRef

\* C1: in every interleaving of card changes, fast-mode toggles, resets and
\* completions, the completion (success or failure) of a simulation whose
\* token is no longer currentSimulationRef changes none of simulationResult,
\* advice, simulationError and isSimulating.
C1_AbandonedNotPublished ==
    [][\A s \in sims :
          (Abandoned(s) /\ Completes(s)) =>
              UNCHANGED <<simulationResult, advice, simulationError,
                          isSimulating>>]_vars

\* An abandoned simulation completed while a newer one was running.
C1_Witness ==
    /\ superseded > 0 /\ isSimulating
    /\ \E s \in sims : s.token = currentSimulationRef /\ s.token > superseded

\* C2: once a running simulation is abandoned it starts no further batch of
\* iterations: at most the batch in flight at the abandonment completes.
C2_AbandonedStartsNoBatch ==
    [][\A s \in sims :
          Abandoned(s) =>
              \A s2 \in sims' : s2.token = s.token => s2.batch = s.batch]_vars

\* C3: for 2 to 7 distinct valid known cards, in every iteration the dealer's
\* two hole cards and the drawn community cards are pairwise distinct and
\* disjoint from the known cards; each 7-card pool holds no card twice and
\* the two pools share exactly the 5 community cards.
C3_DealtDistinct ==
    (attempted > 0 /\ ValidKnown(knownCards)) =>
        /\ Len(dealerHole) = 2
        /\ Len(fullCommunity) = 5
        /\ NoDuplicates(dealt)
        /\ Elems(dealt) \cap Elems(knownCards) = {}
        /\ Len(playerHand) = 7 /\ NoDuplicates(playerHand)
        /\ Len(dealerHand) = 7 /\ NoDuplicates(dealerHand)
        /\ NoDuplicates(playerSolver) /\ NoDuplicates(dealerSolver)
        /\ Elems(playerHand) \cap Elems(dealerHand) = Elems(fullCommunity)
        /\ Cardinality(Elems(fullCommunity)) = 5

\* An iteration on the flop has dealt the dealer's hole cards, turn and river.
C3_Witness ==
    /\ attempted > 1 /\ ValidKnown(knownCards)
    /\ Len(knownCards) = 5 /\ Len(dealt) = 4

\* C4: a call whose known cards hold the same card twice fails with
\* DuplicateCards, runs no iteration and returns no result.
C4_DuplicateRejected ==
    (pc # "call" /\ HasDuplicate(knownCards) /\ Len(knownCards) \in 2..7
        /\ IterationsInRange) =>
        (FailedAs("DuplicateCards") /\ attempted = 0)

\* C5: a call with a known card that is not a token of the deck (such as
\* "Th") fails with InvalidCardFormat and runs no iteration.
C5_InvalidFormatRejected ==
    (pc # "call" /\ HasInvalidToken(knownCards) /\ Len(knownCards) \in 2..7
        /\ ~HasDuplicate(knownCards) /\ IterationsInRange) =>
        (FailedAs("InvalidCardFormat") /\ attempted = 0)

\* C6: fewer than 2 known cards fail with TooFewCards and more than 7 with
\* TooManyCards, before the remaining deck is built or an iteration runs;
\* 2 to 7 known cards raise neither.
C6_LengthChecked ==
    pc # "call" =>
        /\ Len(knownCards) < 2 =>
              (FailedAs("TooFewCards") /\ attempted = 0
                  /\ remainingCards = << >>)
        /\ Len(knownCards) > 7 =>
              (FailedAs("TooManyCards") /\ attempted = 0
                  /\ remainingCards = << >>)
        /\ Len(knownCards) \in 2..7 =>
              ErrorKind(error) \notin {"TooFewCards", "TooManyCards"}

\* Eight known cards were refused by the definition at the head of the file.
C6_Witness ==
    /\ impl = "simple" /\ Len(knownCards) = 8
    /\ FailedAs("TooManyCards")

\* C7: a call with an iteration count under 10 or over 10000 fails with
\* InvalidIterationCount and runs no iteration.
C7_IterationCountRejected ==
    (pc # "call" /\ ValidKnown(knownCards) /\ ~IterationsInRange) =>
        (FailedAs("InvalidIterationCount") /\ attempted = 0)

\* C8: an iteration whose evaluation throws increments no counter and is not
\* counted in the result; the loop goes on to the next iteration, and the
\* call does not fail once an iteration has been classified.
C8_ThrowSkipped ==
    /\ [][(attempted' = attempted + 1 /\ classified' = classified) =>
            /\ TallyWins' = TallyWins
            /\ TallyTies' = TallyTies
            /\ TallyLosses' = TallyLosses
            /\ pc' = "loop"
            /\ error' = error /\ result' = result]_vars
    /\ [](Returned => result[1].iterations = classified)
    /\ [](classified > 0 => ~Failed)

\* A call returned after an iteration that threw.
C8_Witness ==
    /\ Returned /\ classified > 0 /\ classified < attempted
    /\ Len(knownCards) = 5

\* C9: the call fails with NoValidSimulations exactly when no iteration was
\* classified after all requested iterations were attempted; no result has
\* 0 iterations and no percentage is a division by zero.
C9_NoValidSimulations ==
    /\ FailedAs("NoValidSimulations") =>
          (classified = 0 /\ attempted = Max(0, iterations))
    /\ (Failed /\ ErrorKind(error) # "NoValidSimulations") => attempted = 0
    /\ Returned =>
          /\ classified > 0 /\ attempted = iterations
          /\ result[1].iterations >= 1
          /\ result[1].win.den > 0 /\ result[1].tie.den > 0
          /\ result[1].lose.den > 0
    /\ (pc = "loop" /\ attempted < iterations) => (error = "" /\ result = << >>)

\* Every iteration of a call threw.
C9_Witness ==
    /\ FailedAs("NoValidSimulations") /\ attempted >= MinIterations

C11_CommunityFilled ==
    (attempted > 0 /\ Len(knownCards) \in 2..7) =>
        /\ communityNeeded = 5 - (Len(knownCards) - 2)
        /\ Len(dealerHole) = 2
        /\ Len(dealt) = 2 + (5 - (Len(knownCards) - 2))
        /\ slice(fullCommunity, 0, Len(communityCards)) = communityCards
        /\ slice(fullCommunity, Len(communityCards), 5) = slice(dealt, 2, 7)
        /\ Len(fullCommunity) = 5
        /\ Len(knownCards) = 7 =>
              (dealt = dealerHole /\ fullCommunity = communityCards
                  /\ playerHand = knownCards)

\* An iteration ran on a full board.
C11_Witness ==
    /\ attempted > 1 /\ Len(knownCards) = 7 /\ Len(dealt) = 2

\* The number of positions of array that hold x.
CountIn(array, x) == Cardinality({k \in 1..Len(array) : array[k] = x})

IsPermutationOf(out, array) ==
    /\ Len(out) = Len(array)
    /\ \A x \in Elems(array) \cup Elems(out) : CountIn(out, x) = CountIn(array, x)

RECURSIVE Factorial(_)
Factorial(n) == IF n <= 1 THEN 1 ELSE n * Factorial(n - 1)

ReturnedFrom(f) == callee = f /\ outcome[1] = "returned"

\* C12: for every sequence of its random draws shuffleArray returns a
\* permutation of its input, and over all sequences of draws every
\* permutation of an n-element input comes from exactly one sequence: the
\* n! sequences give n! different permutations.
C12_ShuffleUniform ==
    ReturnedFrom("shuffleArray") =>
        LET array == args[1]
            out == outcome[2]
            n == Len(array)
        IN  /\ IsPermutationOf(out, array)
            /\ \A js \in DrawSeqs(n) :
                  shuffleArray(array, js) = out => js = args[2]
            /\ Cardinality(DrawSeqs(n)) = Factorial(n)
            /\ Cardinality({shuffleArray(array, js) : js \in DrawSeqs(n)})
                 = Factorial(n)

\* A shuffle that moved the last element to the front.
C12_Witness ==
    /\ ReturnedFrom("shuffleArray") /\ Len(args[1]) = MaxShuffle
    /\ outcome[2][1] = args[1][MaxShuffle] /\ outcome[2] # args[1]

RECURSIVE SumOf(_, _)
SumOf(history, k) ==
    IF history = << >> THEN 0 ELSE Head(history)[k] + SumOf(Tail(history), k)

\* What a call with this history returns when no other call runs.
AloneResult(history) ==
    MakeResult(SumOf(history, 2), SumOf(history, 3), SumOf(history, 4),
               SumOf(history, 2) + SumOf(history, 3) + SumOf(history, 4))

\* The counters of call c as its history gives them.
AloneTally(c) ==
    <<SumOf(calls[c].history, 2), SumOf(calls[c].history, 3),
      SumOf(calls[c].history, 4)>>

FrameTally(c) ==
    LET f == frames[Scope(c)]
    IN  <<f.totalWins + f.wins, f.totalTies + f.ties,
          f.totalLosses + f.losses>>

\* C13: two calls that interleave at their awaits do not influence each
\* other: the counters and the remaining deck of a call change only in that
\* call's own runs, and each call returns what it returns alone with the same
\* draws.
C13_CallsIsolated ==
    /\ [][\A c \in DOMAIN calls :
            calls'[c] = calls[c] => frames'[Scope(c)] = frames[Scope(c)]]_vars
    /\ [](\A c \in DOMAIN calls :
            /\ calls[c].pc # "idle" =>
                  /\ FrameTally(c) = AloneTally(c)
                  /\ frames[Scope(c)].remainingCards =
                        filterNotIn(generateDeck, calls[c].knownCards)
            /\ calls[c].pc = "returned" =>
                  calls[c].result = <<AloneResult(calls[c].history)>>
            /\ calls[c].pc = "thrown" =>
                  AloneTally(c) = <<0, 0, 0>>)

\* Both calls returned, and each ran while the other awaited.
C13_Witness ==
    /\ DOMAIN calls = PairCalls
    /\ \A c \in PairCalls :
          calls[c].pc = "returned" /\ Len(calls[c].history) > 1
    /\ calls[1].result # calls[2].result

\* The documented bands of the confidence.
ConfidenceBand(n) ==
    CASE n < 250 -> 75
      [] n >= 250 /\ n < 500 -> 80
      [] n >= 500 /\ n < 1000 -> 85
      [] n >= 1000 /\ n < 2000 -> 90
      [] OTHER -> 95

\* A sequence of reports whose iterations and confidence never decrease.
NeverDecreases(reports) ==
    \A k \in 1..(Len(reports) - 1) :
        /\ reports[k].iterations <= reports[k + 1].iterations
        /\ reports[k].confidence <= reports[k + 1].confidence

\* C14: the confidence is a function of the valid-iteration count alone and
\* never decreases as the count increases: 75 below 250, 80 from 250, 85
\* from 500, 90 from 1000, 95 from 2000; so are the confidences of the
\* results batchSimulation passes to onProgress and of the one it returns.
C14_ConfidenceMonotone ==
    /\ ReturnedFrom("calculateConfidence") =>
          /\ outcome[2] = ConfidenceBand(args[1])
          /\ \A c \in ConfidenceCalls :
                c[2][1] <= args[1] => calculateConfidence(c[2][1]) <= outcome[2]
    /\ ReturnedFrom("batchSimulation") =>
          LET r == outcome[2]
              all == Append(r.reports, [iterations |-> r.iterations,
                                        confidence |-> r.confidence])
          IN  /\ NeverDecreases(all)
              /\ \A k \in 1..Len(all) :
                    all[k].confidence = ConfidenceBand(all[k].iterations)

\* A batch simulation of four whole batches reported 85, 90, 90 and 95.
C14_Witness ==
    /\ ReturnedFrom("batchSimulation")
    /\ Len(outcome[2].reports) = 4
    /\ outcome[2].reports[1].confidence = 85
    /\ outcome[2].reports[3].confidence = 90
    /\ outcome[2].confidence = 95

\* The simulations a batch call awaited and that threw.
FailedInner ==
    IF callee = "batchSimulation"
    THEN {b \in 1..Ceil(args[1], args[2]) : args[3][b] = "throw"}
    ELSE IF callee = "batchSimulationScenarios"
    THEN {k \in 1..Len(args[1]) :
            ScenarioFails(args[1][k], args[2], args[3][k])}
    ELSE {}

\* C15: a simulation that fails reaches the caller as a failure: no entry
\* point, batchSimulation included, returns a result with a default in the
\* place of the failed simulation or without a trace of the failure.
C15_FailureReachesCaller ==
    (callee \in {"batchSimulation", "batchSimulationScenarios"}
        /\ FailedInner # {}) =>
        outcome[1] # "returned"

\* The message of the failure of call s.
FailureMessage(s) == IF s.error # "" THEN s.error ELSE NoValidMessage

\* C16: when the current simulation fails, simulationError holds the failure
\* message, advice is the calculation-error advice and isSimulating is
\* false; an error message only ever comes from such a failure, stays with
\* that advice, and is cleared by the effect of the next card change and by
\* a reset.
C16_ErrorFallback ==
    [][/\ (simulationError' # << >> /\ simulationError' # simulationError) =>
            \E s \in sims :
                /\ IsCurrent(s.token) /\ Settles(s) /\ s \notin sims'
                /\ simulationError' = <<FailureMessage(s)>>
                /\ advice' = Advice("Calculation Error", "low", s.stage)
       /\ simulationError' # << >> =>
            /\ advice'.action = "Calculation Error"
            /\ isSimulating' = FALSE
       /\ currentSimulationRef' # currentSimulationRef =>
            simulationError' = << >>]_vars

\* The failure of the current simulation is shown, and a card change whose
\* effect will clear it has been made.
C16_Witness ==
    /\ simulationError = <<NoValidMessage>>
    /\ advice.action = "Calculation Error"
    /\ ~isSimulating
    /\ effectPending
    /\ Len(selectedCards) = MaxPick

\* C17: evaluateHand and getHandRank given fewer than 5 cards fail with
\* InvalidInput; they return neither a description nor a rank value.
C17_TooFewCardsFails ==
    (callee \in {"evaluateHand", "getHandRank"}
        /\ Len(args[1]) < 5 /\ outcome[1] # "pending") =>
        outcome = <<"thrown", "InvalidInput">>

\* The rank of a token: all its characters but the last; its suit: the last.
RankOf(card) == SubSeq(card, 1, Len(card) - 1)

SuitOf(card) == card[Len(card)]

\* The token with T for the rank 10, the letter the advisor and the solver
\* know the ten by.
WithT(card) ==
    IF RankOf(card) = <<"1", "0">> THEN <<"T", SuitOf(card)>> ELSE card

DeckCards == {generateDeck[k] : k \in 1..Len(generateDeck)}

\* C18: every parser of a card token reads rank = all characters but the
\* last and suit = the last character, for each of the 52 cards: formatCards
\* shows the rank with the symbol of the suit, getPreflopAdvice advises on
\* 10h as on the ten of hearts, convertCardForSolver hands the solver T with
\* the suit; no two distinct cards are mapped to the same parsed card.
C18_BothTokenWidthsParsed ==
    /\ (ReturnedFrom("formatCards") /\ Len(args[1]) = 1) =>
          LET card == args[1][1]
          IN  /\ outcome[2] = RankOf(card) \o <<suitSymbol(SuitOf(card))>>
              /\ \A other \in DeckCards \ {card} :
                    formatCards(<<other>>) # outcome[2]
    /\ (ReturnedFrom("getPreflopAdvice") /\ Len(args[1]) = 2) =>
          outcome[2] = getPreflopAdvice(<<WithT(args[1][1]),
                                          WithT(args[1][2])>>)
    /\ ReturnedFrom("convertCardForSolver") =>
          /\ outcome[2] = WithT(args[1])
          /\ \A other \in DeckCards \ {args[1]} :
                convertCardForSolver(other) # outcome[2]

\* README, Betting Advice System: the documented move for a win rate.
DocumentedMove(w) ==
    IF w >= 65 THEN "3x"
    ELSE IF w >= 45 THEN "2x"
    ELSE IF w >= 35 THEN "check"
    ELSE "fold"

\* The moves an advice names.
MovesOf(action) ==
    CASE action \in {"Bet 3x (Strong Position)", "Bet 3x Aggressively",
                     "Bet 3x Confidently", "Bet 3x - Monster hand!",
                     "Bet 3x - Strong position!"} -> {"3x"}
      [] action \in {"Bet 2x or Check (Decent Chance)",
                     "Check or Bet 2x - Good hand"} -> {"2x", "check"}
      [] action = "Bet 2x Cautiously" -> {"2x"}
      [] action \in {"Check and Evaluate", "Check - Marginal hand",
                     "Check - Weak hand"} -> {"check"}
      [] action \in {"Fold (Too Risky)", "Consider Folding",
                     "Fold - Very weak"} -> {"fold"}
      [] OTHER -> {}

\* C19: for every win rate from 0 to 100 the advice after the flop names the
\* documented move: a 3x bet at 65 or more, a 2x bet from 45 up to 65, a
\* check from 35 up to 45, a fold below 35.
C19_DocumentedBands ==
    /\ (ReturnedFrom("getPostflopAdvice")
          \/ ReturnedFrom("getPostflopAdvice_part005")) =>
          DocumentedMove(args[1]) \in MovesOf(outcome[2].action)
    /\ ReturnedFrom("generateFallbackAdvice") =>
          DocumentedMove(args[1]) \in MovesOf(outcome[2].recommendation)

\* a holds cards of b only, in the order b holds them.
KeepsOrderOf(a, b) ==
    /\ Elems(a) \subseteq Elems(b)
    /\ \A m, n \in 1..Len(a) :
          m < n => indexOf(b, a[m]) < indexOf(b, a[n])

\* C20: after any sequence of toggles and Clear All, the selection CardPicker
\* reports through onSelect holds at most 7 cards and no card twice, and
\* lists the cards in the order they were selected: a toggle puts the card
\* at the end or takes it out and leaves the others in their order.  A
\* toggle of an unselected card while 7 are selected changes nothing and
\* does not call onSelect.
C20_PickerSelection ==
    [][/\ Len(selectedCards') <= 7
       /\ NoDuplicates(selectedCards')
       /\ selectedCards' = selected'
       /\ \/ selected' = << >>
          \/ /\ Len(selected') = Len(selected) + 1
             /\ SubSeq(selected', 1, Len(selected)) = selected
             /\ selected'[Len(selected')] \notin Elems(selected)
          \/ /\ Len(selected') = Len(selected) - 1
             /\ KeepsOrderOf(selected', selected)
          \/ /\ selected' = selected
             /\ Len(selected) = 7
             /\ outcome' = outcome
             /\ selectedCards' = selectedCards
       /\ outcome'[2] # outcome[2] => outcome'[2] = outcome[2] + 1]_vars

\* Seven cards are selected, not in the order of the grid, and a click on an
\* eighth has gone by without a call of onSelect.
C20_Witness ==
    /\ callee = "CardPicker"
    /\ Len(selected) = 7
    /\ selected # SubSeq(PickerCards, 1, 7)
    /\ args[1] = outcome[2] + 1

\* The iteration count of the mode.
ModeIterations(fast) == IF fast THEN fastIterations ELSE slowIterations

\* App shows simulation results, the effect of the last change having run.
ShowsResults ==
    /\ simulationResult # << >>
    /\ ~isSimulating
    /\ simulationError = << >>
    /\ ~effectPending

C22_SimulatingEnds ==
    <>[](~isSimulating)

\* The call of the latest token has completed and cleared isSimulating after
\* an earlier call was superseded; nothing is in flight or due.
C22_Witness ==
    /\ ~isSimulating /\ ~effectPending /\ sims = {}
    /\ simulationResult # << >>
    /\ superseded > 0
    /\ superseded < currentSimulationRef

\* The tokens of the calls in flight.
Tokens(calls_) == {s.token : s \in calls_}

\* C23: currentSimulationRef never decreases; every run of the card-change
\* effect and every reset increases it by exactly one, and nothing else
\* changes it; a started simulation captures the new token, greater than
\* the token of every simulation started before; at most one simulation in
\* flight is current.
C23_TokenMonotone ==
    [][/\ currentSimulationRef' >= currentSimulationRef
       /\ (useEffect \/ handleReset) <=>
              currentSimulationRef' = currentSimulationRef + 1
       /\ currentSimulationRef' # currentSimulationRef =>
              currentSimulationRef' = currentSimulationRef + 1
       /\ \A t \in Tokens(sims') \ Tokens(sims) :
              /\ t = currentSimulationRef'
              /\ t > currentSimulationRef
              /\ \A u \in Tokens(sims) \cup {superseded} : u < t
       /\ \A s, t \in sims' : s.token = t.token => s = t
       /\ \A s \in sims' : s.token <= currentSimulationRef']_vars

\* Two simulations are in flight; the one started last is the current one.
C23_Witness ==
    /\ Cardinality(sims) = 2
    /\ \E s \in sims :
          /\ s.token = currentSimulationRef
          /\ \A t \in sims \ {s} : t.token < s.token

\* C24: the selection held inside CardPicker equals App's selectedCards in
\* every reachable state; after handleReset both are empty, and the next
\* toggle in the picker reports a selection of exactly one card.
C24_PickerMatchesApp ==
    [][/\ selected' = selectedCards'
       /\ handleReset => (selected' = << >> /\ selectedCards' = << >>)
       /\ (selectedCards = << >> /\ \E card \in Clickable : toggleCard(card))
             => Len(selectedCards') = 1]_vars

\* The fixed batch size of the definition; "simple" runs one batch.
BatchSizeOf(im) ==
    IF im = "batched" THEN batchSizeBatched
    ELSE IF im = "validated" THEN batchSizeValidated
    ELSE iterations

\* The index, counted over the whole call, of the iteration the loop is at.
IterationIndex ==
    IF impl = "batched" THEN (batch * batchSizeBatched) + i ELSE i

DeckWithout(known) ==
    SelectSeq(generateDeck, LAMBDA card : card \notin Elems(known))

\* C26: the remaining deck is the full deck minus the known cards from the
\* entry of the call on, 52 - |known| cards when the known cards are
\* distinct cards of the deck, and in the same order before every
\* iteration: a shuffle leaves it as it is.
C26_RemainingDeckFixed ==
    pc \in {"loop", "returned"} =>
        /\ remainingCards = DeckWithout(knownCards)
        /\ ValidKnown(knownCards) =>
              Len(remainingCards) = Len(generateDeck) - Len(knownCards)

\* After two iterations, the last of which dealt other cards than the first
\* cards of the remaining deck.
C26_Witness ==
    /\ pc = "loop"
    /\ attempted >= 2
    /\ dealt # << >>
    /\ dealt # SubSeq(remainingCards, 1, Len(dealt))
    /\ remainingCards = DeckWithout(knownCards)

\* C27: in each classified iteration the player's pool and the opponent's
\* pool are the two hole cards of each over the same five community cards,
\* and the iteration is a tie if and only if the comparison returns both
\* hands as winners, a win if and only if it returns the player's hand
\* alone, and a loss in every other case.
C27_SamePoolsAndClassification ==
    (pc = "loop" /\ classified > 0 /\ dealt # << >>) =>
        /\ Len(fullCommunity) = 5
        /\ Len(playerHand) = 7 /\ Len(dealerHand) = 7
        /\ SubSeq(playerHand, 1, 2) = SubSeq(knownCards, 1, 2)
        /\ SubSeq(dealerHand, 1, 2) = SubSeq(dealt, 1, 2)
        /\ SubSeq(playerHand, 3, 7) = SubSeq(dealerHand, 3, 7)
        /\ SubSeq(playerHand, 3, 7) = fullCommunity
        /\ \A w \in WinnersArrays :
              /\ Classify(w) = "tie" <=>
                    Elems(w) = {"playerResult", "dealerResult"}
              /\ Classify(w) = "win" <=> Elems(w) = {"playerResult"}
              /\ Classify(w) = "lose" <=>
                    Elems(w) \notin {{"playerResult", "dealerResult"},
                                     {"playerResult"}}

\* A call on a flop has classified an iteration as a tie and one as a loss;
\* the last iteration dealt the turn and the river.
C27_Witness ==
    /\ pc = "loop" /\ impl = "simple"
    /\ Len(knownCards) = 5
    /\ ties > 0 /\ losses > 0
    /\ Len(dealt) = 4

\* Nothing is left to happen in the advisor unless the user acts: no effect
\* is due, no start timer and no request is pending, no simulation runs.
AdvisorSettled ==
    /\ EffectsDone
    /\ timer = << >>
    /\ requests = {}
    /\ sims = {}

\* C28: once at least 2 cards are selected and the selection, its simulation
\* result, the start timer and every request have settled, the panel is not
\* loading and shows an advice that was asked for the cards now selected.
C28_AdviceForSelection ==
    (AdvisorSettled /\ Len(selectedCards) >= 2) =>
        /\ ~isLoading
        /\ aiAdvice # << >>
        /\ aiAdvice[1].cards = selectedCards

\* C29: a request of the advisor that carries a simulation result carries the
\* result of a simulation of the very cards the request names, and so does
\* the advice that is displayed.
C29_ResultOfSameCards ==
    /\ \A r \in requests :
          r.result # << >> => r.result[1].cards = r.cards
    /\ (aiAdvice # << >> /\ aiAdvice[1].result # << >>) =>
          aiAdvice[1].result[1].cards = aiAdvice[1].cards

HandlerReturned == callee = "handler" /\ outcome[1] = "returned"

\* The upstream answer is well formed: an OK status and a JSON body whose
\* first choice has a message with a text.
WellFormedAnswer(response) ==
    /\ ~response.rejects
    /\ ok(response)
    /\ response.shape = "message"
    /\ response.content # << >>

\* The request reaches the upstream call: a POST with a prompt and a key.
ReachesUpstream(req, apiKey) ==
    /\ req.method = "POST"
    /\ req.hasBody
    /\ req.prompt \notin {<< >>, <<"">>}
    /\ apiKey # ""

\* C30: the handler sends exactly one response; OPTIONS gets 200, another
\* method than POST gets 405, a POST without prompt gets 400; a POST with a
\* prompt gets 500 with success false when the key is missing or the upstream
\* answer is not well formed, and 200 with success true and an advice object
\* when it is; success true comes with status 200 only.
C30_OneResponsePerRequest ==
    HandlerReturned =>
        LET req == args[1]
            apiKey == args[2]
            response == args[3]
            sent == outcome[2]
            hasPrompt == req.hasBody /\ req.prompt \notin {<< >>, <<"">>}
        IN  /\ Len(sent) = 1
            /\ req.method = "OPTIONS" => sent[1].status = 200
            /\ req.method \notin {"OPTIONS", "POST"} => sent[1].status = 405
            /\ (req.method = "POST" /\ ~hasPrompt) => sent[1].status = 400
            /\ (req.method = "POST" /\ hasPrompt
                  /\ ~(ReachesUpstream(req, apiKey) /\ WellFormedAnswer(response)))
                  => (sent[1].status = 500 /\ sent[1].success = <<FALSE>>)
            /\ (ReachesUpstream(req, apiKey) /\ WellFormedAnswer(response))
                  => /\ sent[1].status = 200
                     /\ sent[1].success = <<TRUE>>
                     /\ sent[1].advice # << >>
                     /\ sent[1].advice[1].type = "object"
            /\ sent[1].success = <<TRUE>> => sent[1].status = 200

=============================================================================
